---------------------------- MODULE Spec2Model ----------------------------
(***************************************************************************)
(* Web icons generator: the icon-generation pipeline (IconGenerator), the  *)
(* framework detector, and the surfaces that drive them (the command line  *)
(* tool and the generate_web_icons / auto_generate_icons tools).           *)
(*                                                                         *)
(* Paths and file names are sequences of tokens.  A token is a run of      *)
(* characters; "/" is the separator, an extension (".svg") is one token,   *)
(* and a name that starts with the characters "app" has "app" as a token   *)
(* of its own, so that the substring searches of the code (includes,       *)
(* replace, endsWith, basename, extname) are computed on the tokens        *)
(* exactly as the code computes them on the characters.                    *)
(***************************************************************************)
EXTENDS Integers, Sequences, FiniteSets, TLC

\* An absent (undefined / null) string
None == "<none>"
\* An absent path; like the empty string it is falsy in the code's tests
NoPath == <<>>
\* detect() returning null
NoFramework == [name |-> None, configFiles |-> <<>>, publicDir |-> NoPath, appDir |-> NoPath]

(***************************************************************************)
(* Bounds of the model.                                                    *)
(***************************************************************************)
\* How many file-system operations of one run may fail.
MaxFaults == 1
\* How many times the project tree may change while a run is in progress.
MaxEnvChanges == 1
\* The calls of integrate_icons_html in one behaviour
MaxCalls == 2

(***************************************************************************)
(* String and path functions (node's path module and String.prototype).    *)
(***************************************************************************)
SEP == "/"

\* String.prototype.includes
Includes(s, pat) ==
  \E i \in 1..(Len(s) - Len(pat) + 1) : SubSeq(s, i, i + Len(pat) - 1) = pat

\* String.prototype.endsWith
EndsWith(s, suffix) ==
  /\ Len(s) >= Len(suffix)
  /\ SubSeq(s, Len(s) - Len(suffix) + 1, Len(s)) = suffix

\* String.prototype.toLowerCase, token by token
LowerTok(t) ==
  CASE t = ".SVG" -> ".svg"
    [] t = ".PNG" -> ".png"
    [] t = ".JPEG" -> ".jpeg"
    [] OTHER -> t

ToLowerCase(s) == [i \in 1..Len(s) |-> LowerTok(s[i])]

\* String.prototype.replace with a string pattern: the first occurrence only
ReplaceFirst(s, tok, by) ==
  IF \E i \in 1..Len(s) : s[i] = tok
  THEN LET k == CHOOSE i \in 1..Len(s) : s[i] = tok /\ \A j \in 1..(i - 1) : s[j] # tok
       IN  [s EXCEPT ![k] = by]
  ELSE s

LastSep(p) ==
  IF \E i \in 1..Len(p) : p[i] = SEP
  THEN CHOOSE i \in 1..Len(p) : p[i] = SEP /\ \A j \in (i + 1)..Len(p) : p[j] # SEP
  ELSE 0

\* path.basename
Basename(p) == SubSeq(p, LastSep(p) + 1, Len(p))

\* path.dirname
Dirname(p) == IF LastSep(p) <= 1 THEN <<SEP>> ELSE SubSeq(p, 1, LastSep(p) - 1)

IsExtTok(t) ==
  t \in {".svg", ".SVG", ".png", ".PNG", ".jpg", ".jpeg", ".JPEG", ".gif", ".txt", ".ico",
         ".webmanifest", ".html", ".tsx", ".svelte"}

\* path.extname: the last extension of the basename, "" when there is none
\* (a basename that is only an extension, like ".svg", has none)
Extname(p) ==
  LET b == Basename(p)
  IN  IF Len(b) >= 2 /\ IsExtTok(b[Len(b)]) THEN b[Len(b)] ELSE ""

\* path.join of a directory and a relative name
Join(dir, name) == dir \o <<SEP>> \o name

\* path.resolve(base, rel) for rel absolute, "." or a plain relative path
Resolve(base, rel) ==
  IF rel[1] = SEP THEN rel
  ELSE IF rel = <<".">> THEN base
  ELSE Join(base, rel)

\* The directories a recursive mkdir of p creates: p and every ancestor
Ancestors(p) ==
  {SubSeq(p, 1, i) : i \in {j \in 1..Len(p) : j = Len(p) \/ (j >= 2 /\ p[j + 1] = SEP)}}

\* JavaScript's a || b on optional strings: absent and "" are falsy
OrElse(a, b) == IF a = None \/ a = "" THEN b ELSE a

(***************************************************************************)
(* types.ts: the static catalogs.                                          *)
(***************************************************************************)
FaviconIco == <<"favicon", ".ico">>
Icon192 == <<"icon-192", ".png">>
Icon512 == <<"icon-512", ".png">>
AppleTouchIcon == <<"app", "le-touch-icon", ".png">>
IconMaskable == <<"icon-maskable", ".png">>
IconPng == <<"icon", ".png">>
AppleIcon == <<"app", "le-icon", ".png">>
IconSvg == <<"icon", ".svg">>
SafariPinnedTab == <<"safari-pinned-tab", ".svg">>
SiteWebmanifest == <<"site", ".webmanifest">>
GuideFile == <<"icon-integration-guide", ".txt">>

ICON_CONFIGS ==
  << [filename |-> FaviconIco,     size |-> 32,  format |-> "ico", mode |-> "both"],
     [filename |-> Icon192,        size |-> 192, format |-> "png", mode |-> "traditional"],
     [filename |-> Icon512,        size |-> 512, format |-> "png", mode |-> "traditional"],
     [filename |-> AppleTouchIcon, size |-> 180, format |-> "png", mode |-> "both"],
     [filename |-> IconMaskable,   size |-> 512, format |-> "png", mode |-> "traditional"],
     [filename |-> IconPng,        size |-> 512, format |-> "png", mode |-> "nextjs"],
     [filename |-> AppleIcon,      size |-> 180, format |-> "png", mode |-> "nextjs"] >>

FRAMEWORKS ==
  << [name |-> "Next.js",
      configFiles |-> << <<"next.config", ".js">>, <<"next.config", ".mjs">>, <<"next.config", ".ts">> >>,
      publicDir |-> <<"public">>, appDir |-> <<"app">>],
     [name |-> "Astro",
      configFiles |-> << <<"astro.config", ".mjs">>, <<"astro.config", ".js">>, <<"astro.config", ".ts">> >>,
      publicDir |-> <<"public">>, appDir |-> NoPath],
     [name |-> "SvelteKit",
      configFiles |-> << <<"svelte.config", ".js">> >>,
      publicDir |-> <<"static">>, appDir |-> NoPath],
     [name |-> "Remix",
      configFiles |-> << <<"remix.config", ".js">> >>,
      publicDir |-> <<"public">>, appDir |-> NoPath],
     [name |-> "Vite",
      configFiles |-> << <<"vite.config", ".js">>, <<"vite.config", ".ts">> >>,
      publicDir |-> <<"public">>, appDir |-> NoPath] >>

(***************************************************************************)
(* utils.ts: FrameworkDetector, findAppIcon, validateSourceFile, computed  *)
(* on a file system f (the set of paths that exist).                       *)
(***************************************************************************)
\* fs.access succeeds
Access(f, p) == p \in f

HasConfig(f, cwd, fw) ==
  \E i \in 1..Len(fw.configFiles) : Access(f, Join(cwd, fw.configFiles[i]))

\* A detection that keeps the last framework that matches
detect_Mut(f, cwd) ==
  IF \E k \in 1..Len(FRAMEWORKS) : HasConfig(f, cwd, FRAMEWORKS[k])
  THEN LET k == CHOOSE i \in 1..Len(FRAMEWORKS) :
                  /\ HasConfig(f, cwd, FRAMEWORKS[i])
                  /\ \A j \in (i + 1)..Len(FRAMEWORKS) : ~HasConfig(f, cwd, FRAMEWORKS[j])
       IN  FRAMEWORKS[k]
  ELSE NoFramework

\* FrameworkDetector.detect: the first framework, in catalog order, one of
\* whose config files exists under cwd; NoFramework when there is none
detect(f, cwd) ==
  IF \E k \in 1..Len(FRAMEWORKS) : HasConfig(f, cwd, FRAMEWORKS[k])
  THEN LET k == CHOOSE i \in 1..Len(FRAMEWORKS) :
                  /\ HasConfig(f, cwd, FRAMEWORKS[i])
                  /\ \A j \in 1..(i - 1) : ~HasConfig(f, cwd, FRAMEWORKS[j])
       IN  FRAMEWORKS[k]
  ELSE NoFramework

\* FrameworkDetector.getPublicDir (detects again)
getPublicDir(f, cwd) ==
  LET framework == detect(f, cwd)
  IN  IF framework # NoFramework THEN Join(cwd, framework.publicDir)
      ELSE Join(cwd, <<"public">>)

\* A lookup of the app directory that does not ask what the framework declares
getAppDir_Mut(f, cwd) ==
  LET rootAppDir == Join(cwd, <<"app">>)
      srcAppDir == Join(Join(cwd, <<"src">>), <<"app">>)
  IN  IF Access(f, rootAppDir) THEN rootAppDir
      ELSE IF Access(f, srcAppDir) THEN srcAppDir
      ELSE NoPath

\* FrameworkDetector.getAppDir (detects again): <cwd>/app, then <cwd>/src/app
getAppDir(f, cwd) ==
  LET framework == detect(f, cwd)
  IN  IF framework # NoFramework /\ framework.appDir # NoPath
      THEN LET rootAppDir == Join(cwd, framework.appDir)
               srcAppDir == Join(Join(cwd, <<"src">>), framework.appDir)
           IN  IF Access(f, rootAppDir) THEN rootAppDir
               ELSE IF Access(f, srcAppDir) THEN srcAppDir
               ELSE NoPath
      ELSE NoPath

\* FrameworkDetector.hasAppRouter
hasAppRouter(f, cwd) == getAppDir(f, cwd) # NoPath

AppIconSvg == <<"app", "-icon", ".svg">>
AppIconPng == <<"app", "-icon", ".png">>

\* findAppIcon: app-icon.svg, then app-icon.png, under cwd
findAppIcon(f, cwd) ==
  IF Access(f, Join(cwd, AppIconSvg)) THEN Join(cwd, AppIconSvg)
  ELSE IF Access(f, Join(cwd, AppIconPng)) THEN Join(cwd, AppIconPng)
  ELSE NoPath

validExtensions == {".svg", ".png", ".jpg", ".jpeg"}

\* A validation that compares the extension as it is spelled
validateSourceFile_Mut(f, sourcePath) ==
  IF ~Access(f, sourcePath) THEN "Source file not found"
  ELSE IF Extname(sourcePath) \notin validExtensions THEN "Invalid file format"
  ELSE "ok"

\* validateSourceFile: "ok", or the error it throws
validateSourceFile(f, sourcePath) ==
  IF ~Access(f, sourcePath) THEN "Source file not found"
  ELSE IF LowerTok(Extname(sourcePath)) \notin validExtensions THEN "Invalid file format"
  ELSE "ok"


(***************************************************************************)
(* generator.ts: the pure parts of IconGenerator.                          *)
(***************************************************************************)
\* The test both surfaces and resolveMode apply to an output directory
IsAppPath(outputDir) ==
  Basename(outputDir) = <<"app">> \/ Includes(outputDir, <<SEP, "app">>)

\* constructor + resolveMode: options.mode || 'traditional', 'auto' resolved
\* from the output directory, an explicit mode kept as it is
resolveMode(options) ==
  LET mode == OrElse(options.mode, "traditional")
  IN  IF mode = "auto"
      THEN (IF IsAppPath(options.outputDir) THEN "nextjs" ELSE "traditional")
      ELSE mode

\* A filter that forgets the entries of both modes
iconsToGenerate_Mut(mode) ==
  SelectSeq(ICON_CONFIGS, LAMBDA config : config.mode = mode)

\* generate: the catalog filtered by mode
iconsToGenerate(mode) ==
  SelectSeq(ICON_CONFIGS, LAMBDA config : config.mode = "both" \/ config.mode = mode)

ConfigOf(filename) ==
  CHOOSE config \in {ICON_CONFIGS[i] : i \in 1..Len(ICON_CONFIGS)} : config.filename = filename

\* Math.floor(size * 0.6): the double nearest 0.6 times an integer below 2^31
\* rounds to the exact product, so this is the integer quotient of 6*size by 10
paddedSizeOf(size) == (size * 6) \div 10

\* addMaskablePadding: the side of the image after resize(paddedSize) and
\* extend(padding) on both sides
addMaskablePadding(size) ==
  LET paddedSize == paddedSizeOf(size)
      padding == (size - paddedSize) \div 2
  IN  paddedSize + padding + padding

\* generateIcon: the side of the image written for a catalog entry
OutputSize(config) ==
  IF config.filename = IconMaskable THEN addMaskablePadding(config.size) ELSE config.size

\* A temporary name for the favicon that another asset also uses
ToFilePath_Mut(outputDir, config) ==
  IF config.format = "ico" THEN Join(outputDir, IconPng) ELSE Join(outputDir, config.filename)

\* generateIcon: the path sharp writes to (for 'ico', the first ".ico" of the
\* whole output path replaced by ".png")
ToFilePath(outputDir, config) ==
  LET outputPath == Join(outputDir, config.filename)
  IN  IF config.format = "ico" THEN ReplaceFirst(outputPath, ".ico", ".png") ELSE outputPath

\* generateSafariPinnedTab: the color put in every fill and stroke
monochromeColor(options) == OrElse(options.color, "#000000")

\* generateHTMLSnippet: the color of the mask-icon tag
snippetColor(options) == OrElse(options.color, "#5bbad5")

\* generateManifest: the icons of the manifest
ManifestIcons ==
  << [src |-> <<SEP>> \o Icon192, sizes |-> <<192, 192>>, purpose |-> None],
     [src |-> <<SEP>> \o Icon512, sizes |-> <<512, 512>>, purpose |-> None],
     [src |-> <<SEP>> \o IconMaskable, sizes |-> <<512, 512>>, purpose |-> "maskable"] >>

\* generateHTMLSnippet / getInstructionsFilePath: where the guide goes
getInstructionsFilePath(options) ==
  Join(IF options.projectRoot # NoPath THEN options.projectRoot ELSE options.outputDir,
       GuideFile)

\* File contents
Image(size) == [kind |-> "image", size |-> size, color |-> None, mode |-> None, icons |-> <<>>]
SvgCopy == [kind |-> "svgcopy", size |-> 0, color |-> None, mode |-> None, icons |-> <<>>]
Pinned(color) == [kind |-> "pinned", size |-> 0, color |-> color, mode |-> None, icons |-> <<>>]
Manifest(icons) == [kind |-> "manifest", size |-> 0, color |-> None, mode |-> None, icons |-> icons]
Guide(mode, color) == [kind |-> "guide", size |-> 0, color |-> color, mode |-> mode, icons |-> <<>>]

(***************************************************************************)
(* The projects and the requests the model runs on.                        *)
(***************************************************************************)
ProjRoot == <<SEP, "proj">>
AppsRoot == <<SEP, "app", "s", SEP, "site">>

LogoSVG == <<"logo", ".SVG">>
LogoPng == <<"logo", ".png">>
NotesTxt == <<"notes", ".txt">>
MissingSvg == <<"missing", ".svg">>

CommonFiles == {LogoSVG, LogoPng, NotesTxt}

Projects ==
  { [root |-> ProjRoot, files |-> {AppIconSvg}],
    [root |-> ProjRoot, files |-> {<<"next.config", ".js">>, <<"app">>, AppIconSvg}],
    [root |-> ProjRoot, files |-> {<<"next.config", ".mjs">>, <<"src", SEP, "app">>, AppIconPng}],
    [root |-> ProjRoot, files |-> {<<"next.config", ".ts">>, <<"vite.config", ".ts">>}],
    [root |-> ProjRoot, files |-> {<<"astro.config", ".mjs">>, <<"app">>, AppIconSvg,
                                   <<"public", SEP, "robots", ".txt">>}],
    [root |-> AppsRoot, files |-> {<<"svelte.config", ".js">>, AppIconPng}] }

ProjectFs(P) ==
  UNION {Ancestors(Join(P.root, r)) : r \in P.files \cup CommonFiles}

Modes == {"traditional", "nextjs", "auto"}
ReqModes == Modes \cup {"bogus"}
OutputDirOpts == {NoPath, <<"public">>, <<"app">>, <<"out", ".ico", "ns">>}
Sources == {LogoSVG, LogoPng, NotesTxt, MissingSvg}
Colors == {None, "", "#112233"}

VARIABLES
  fs,          \* the paths that exist
  fs0,         \* the paths that existed when the run started
  cwd,         \* the project root (process.cwd() / projectPath)
  pc,          \* where the surface's handler is
  req,         \* the request: surface and arguments
  h,           \* the handler's locals
  gen,         \* the IconGenerator: options and mode
  tasks,       \* the per-asset operations of the fan-out
  obs,         \* the mode each decision of generate() observed
  written,     \* what the run wrote: path and content
  warnings,    \* console warnings
  response,    \* what the surface reported
  faults,      \* file-system operations that failed
  envChanges,  \* changes of the project tree during the run
  html,        \* the text of the project's page files, by path
  report       \* the answers of the read-only and page tools, in call order

vars == <<fs, fs0, cwd, pc, req, h, gen, tasks, obs, written, warnings, response,
          faults, envChanges, html, report>>

NoReq == [surface |-> None, mode |-> None, outputDir |-> NoPath, source |-> NoPath,
          color |-> None, defaults |-> TRUE]
NoLocals == [sourcePath |-> NoPath, color |-> None, framework |-> NoFramework,
             hasAppRouter |-> FALSE, mode |-> None, outputDir |-> NoPath]
NoGen == [options |-> [sourcePath |-> NoPath, outputDir |-> NoPath, color |-> None,
                       mode |-> None, projectRoot |-> NoPath],
          mode |-> None]
NoObs == [filter |-> None, pinned |-> None, manifest |-> None, guide |-> None]
NoResponse == [status |-> "none", message |-> None, actualMode |-> None, files |-> {}]
\* No page file has been read
NoDocs == [p \in {} |-> <<>>]

Init ==
  /\ \E P \in Projects : fs = ProjectFs(P) /\ cwd = P.root
  /\ fs0 = fs
  /\ pc = "idle"
  /\ req = NoReq
  /\ h = NoLocals
  /\ gen = NoGen
  /\ tasks = <<>>
  /\ obs = NoObs
  /\ written = {}
  /\ warnings = {}
  /\ response = NoResponse
  /\ faults = 0
  /\ envChanges = 0
  /\ html = NoDocs
  /\ report = <<>>


(***************************************************************************)
(* Helpers of the actions.                                                 *)
(***************************************************************************)
IsMcp == req.surface \in {"generate_web_icons", "auto_generate_icons"}
IsCli == req.surface = "cli"

\* A file is written (created or replaced) with content c
WriteFile(p, c) ==
  /\ fs' = fs \cup {p}
  /\ written' = {w \in written : w.path # p} \cup {[path |-> p, c |-> c]}

\* A catch that answers without the error flag
Fail_Mut(message) ==
  /\ response' = [status |-> "ok", message |-> message, actualMode |-> None, files |-> {}]
  /\ pc' = IF IsCli THEN "exited" ELSE "done"

\* The handler's catch: the tool call answers isError with the message; the
\* command line prints the message and exits with status 1
Fail(message) ==
  /\ response' = [status |-> "error", message |-> message, actualMode |-> None, files |-> {}]
  /\ pc' = IF IsCli THEN "exited" ELSE "done"

\* A case-sensitive test of the extension
isSourceSVG_Mut(sourcePath) == EndsWith(sourcePath, <<".svg">>)

isSourceSVG(sourcePath) == EndsWith(ToLowerCase(sourcePath), <<".svg">>)

(***************************************************************************)
(* mcp.ts: generate_web_icons, up to the source validation.                *)
(***************************************************************************)
GenerateWebIconsCall ==
  /\ pc = "idle"
  /\ \E mode \in ReqModes, out \in OutputDirOpts, src \in Sources, color \in Colors :
       /\ req' = [surface |-> "generate_web_icons", mode |-> mode, outputDir |-> out,
                  source |-> src, color |-> color, defaults |-> TRUE]
       /\ IF mode \notin Modes
          THEN \* GenerateWebIconsSchema.parse throws
               /\ response' = [status |-> "error", message |-> "Invalid arguments",
                               actualMode |-> None, files |-> {}]
               /\ pc' = "done"
               /\ h' = h
          ELSE /\ h' = [NoLocals EXCEPT !.sourcePath = Resolve(cwd, src),
                                        !.color = IF color = None THEN "#5bbad5" ELSE color,
                                        !.mode = OrElse(mode, "auto")]
               /\ pc' = "validate"
               /\ response' = response
  /\ fs0' = fs
  /\ UNCHANGED <<fs, cwd, gen, tasks, obs, written, warnings, faults, envChanges>>
  /\ UNCHANGED <<html, report>>

\* validateSourceFile, awaited by generate_web_icons and by the command line
ValidateSource ==
  /\ pc = "validate"
  /\ LET v == validateSourceFile(fs, h.sourcePath)
     IN  IF v = "ok" THEN pc' = "detect" /\ response' = response
         ELSE Fail(v)
  /\ UNCHANGED <<fs, fs0, cwd, req, h, gen, tasks, obs, written, warnings, faults, envChanges>>
  /\ UNCHANGED <<html, report>>

(***************************************************************************)
(* mcp.ts: auto_generate_icons, up to the detection.                       *)
(***************************************************************************)
AutoGenerateIconsCall ==
  /\ pc = "idle"
  /\ \E mode \in ReqModes, color \in Colors :
       /\ req' = [surface |-> "auto_generate_icons", mode |-> mode, outputDir |-> NoPath,
                  source |-> NoPath, color |-> color, defaults |-> TRUE]
       /\ IF mode \notin Modes
          THEN /\ response' = [status |-> "error", message |-> "Invalid arguments",
                               actualMode |-> None, files |-> {}]
               /\ pc' = "done"
               /\ h' = h
          ELSE LET appIconPath == findAppIcon(fs, cwd)
               IN  IF appIconPath = NoPath
                   THEN /\ response' = [status |-> "error", message |-> "No app-icon found",
                                        actualMode |-> None, files |-> {}]
                        /\ pc' = "done"
                        /\ h' = h
                   ELSE /\ h' = [NoLocals EXCEPT !.sourcePath = appIconPath,
                                      !.color = IF color = None THEN "#5bbad5" ELSE color,
                                      !.mode = OrElse(mode, "auto")]
                        /\ pc' = "detect"
                        /\ response' = response
  /\ fs0' = fs
  /\ UNCHANGED <<fs, cwd, gen, tasks, obs, written, warnings, faults, envChanges>>
  /\ UNCHANGED <<html, report>>

(***************************************************************************)
(* The detection both tools and the command line start with.               *)
(***************************************************************************)
\* const framework = await detector.detect()
Detect ==
  /\ pc = "detect"
  /\ h' = [h EXCEPT !.framework = detect(fs, cwd)]
  /\ pc' = "probe"
  /\ UNCHANGED <<fs, fs0, cwd, req, gen, tasks, obs, written, warnings, response,
                 faults, envChanges>>
  /\ UNCHANGED <<html, report>>

\* const hasAppRouter = await detector.hasAppRouter()
Probe ==
  /\ pc = "probe"
  /\ h' = [h EXCEPT !.hasAppRouter = hasAppRouter(fs, cwd)]
  /\ pc' = "resolve"
  /\ UNCHANGED <<fs, fs0, cwd, req, gen, tasks, obs, written, warnings, response,
                 faults, envChanges>>
  /\ UNCHANGED <<html, report>>

\* A resolution that trusts the framework's name and skips the probe
AutoMode_Mut(mode, probe, framework) ==
  IF mode = "auto" /\ framework.name = "Next.js" THEN "nextjs"
  ELSE IF mode = "auto" THEN "traditional"
  ELSE mode

\* The mode the tools resolve 'auto' to when no output directory is given
AutoMode(mode, probe, framework) ==
  IF mode = "auto" /\ probe /\ framework.name = "Next.js" THEN "nextjs"
  ELSE IF mode = "auto" THEN "traditional"
  ELSE mode

\* A derivation in which an app directory overrides an explicit mode
ModeFromOutputDir_Mut(mode, outputDir) ==
  IF IsAppPath(outputDir) THEN "nextjs"
  ELSE IF mode = "auto" THEN "traditional"
  ELSE mode

\* A derivation that looks at the last component of the directory only
ModeFromOutputDir_Basename(mode, outputDir) ==
  IF mode = "auto"
  THEN (IF Basename(outputDir) = <<"app">> THEN "nextjs" ELSE "traditional")
  ELSE mode

\* The mode a surface derives from an explicit output directory
ModeFromOutputDir(mode, outputDir) ==
  IF mode = "auto"
  THEN (IF IsAppPath(outputDir) THEN "nextjs" ELSE "traditional")
  ELSE mode

\* Whether the app directory is asked for
WantsAppDir(mode, probe) == mode = "nextjs" /\ probe

\* handleGenerateWebIcons / handleAutoGenerateIcons: mode and output directory
McpResolve ==
  /\ pc = "resolve"
  /\ IsMcp
  /\ IF req.outputDir # NoPath
     THEN LET outputDir == Resolve(cwd, req.outputDir)
          IN  /\ h' = [h EXCEPT !.outputDir = outputDir,
                                !.mode = ModeFromOutputDir(h.mode, outputDir)]
              /\ pc' = "construct"
     ELSE LET mode == AutoMode(h.mode, h.hasAppRouter, h.framework)
          IN  /\ h' = [h EXCEPT !.mode = mode]
              /\ pc' = IF WantsAppDir(mode, h.hasAppRouter) THEN "appdir" ELSE "pubdir"
  /\ UNCHANGED <<fs, fs0, cwd, req, gen, tasks, obs, written, warnings, response,
                 faults, envChanges>>
  /\ UNCHANGED <<html, report>>

\* outputDir = await detector.getAppDir() || ...
GetAppDir ==
  /\ pc = "appdir"
  /\ LET appDir == getAppDir(fs, cwd)
     IN  IF appDir # NoPath
         THEN /\ h' = [h EXCEPT !.outputDir = appDir]
              /\ pc' = IF IsCli THEN "confirm" ELSE "construct"
         ELSE /\ h' = h
              /\ pc' = "pubdir"
  /\ UNCHANGED <<fs, fs0, cwd, req, gen, tasks, obs, written, warnings, response,
                 faults, envChanges>>
  /\ UNCHANGED <<html, report>>

\* outputDir = ... await detector.getPublicDir()
GetPublicDir ==
  /\ pc = "pubdir"
  /\ h' = [h EXCEPT !.outputDir = getPublicDir(fs, cwd)]
  /\ pc' = IF IsCli THEN "confirm" ELSE "construct"
  /\ UNCHANGED <<fs, fs0, cwd, req, gen, tasks, obs, written, warnings, response,
                 faults, envChanges>>
  /\ UNCHANGED <<html, report>>


(***************************************************************************)
(* The command line tool (main): its own start, mode resolution and        *)
(* prompts; validation, detection and directory lookup are the actions     *)
(* above.                                                                  *)
(***************************************************************************)
CliStart ==
  /\ pc = "idle"
  /\ \E mode \in ReqModes, out \in OutputDirOpts, src \in Sources \cup {NoPath},
        color \in Colors :
       /\ req' = [surface |-> "cli", mode |-> mode, outputDir |-> out, source |-> src,
                  color |-> color, defaults |-> TRUE]
       /\ LET autoDetected == findAppIcon(fs, cwd)
              start(sourcePath) ==
                /\ h' = [NoLocals EXCEPT !.sourcePath = Resolve(cwd, sourcePath),
                                         !.color = IF color = None THEN "#5bbad5" ELSE color,
                                         !.mode = OrElse(mode, "auto")]
                /\ pc' = "validate"
                /\ response' = response
          IN  IF src # NoPath THEN start(src)
              ELSE IF autoDetected # NoPath THEN start(autoDetected)
              ELSE \E answer \in {NoPath, LogoPng} :
                     IF answer = NoPath
                     THEN \* the prompt is cancelled: process.exit(0)
                          /\ response' = [status |-> "cancelled", message |-> None,
                                          actualMode |-> None, files |-> {}]
                          /\ pc' = "exited"
                          /\ h' = h
                     ELSE start(answer)
  /\ fs0' = fs
  /\ UNCHANGED <<fs, cwd, gen, tasks, obs, written, warnings, faults, envChanges>>
  /\ UNCHANGED <<html, report>>

CliResolve ==
  /\ pc = "resolve"
  /\ IsCli
  /\ LET valid == IF h.mode \in Modes THEN h.mode ELSE "auto"
     IN  /\ warnings' = IF h.mode \in Modes THEN warnings
                        ELSE warnings \cup {"Invalid mode"}
         /\ IF req.outputDir # NoPath
            THEN LET outputDir == Resolve(cwd, req.outputDir)
                 IN  /\ h' = [h EXCEPT !.outputDir = outputDir,
                                       !.mode = ModeFromOutputDir(valid, outputDir)]
                     /\ pc' = "construct"
                     /\ req' = req
            ELSE \E selectedMode \in {"nextjs", "traditional", None} :
                   LET prompted == valid = "auto" /\ h.hasAppRouter
                                     /\ h.framework.name = "Next.js"
                       mode == IF prompted THEN OrElse(selectedMode, "nextjs")
                               ELSE AutoMode(valid, h.hasAppRouter, h.framework)
                   IN  /\ h' = [h EXCEPT !.mode = mode]
                       /\ pc' = IF WantsAppDir(mode, h.hasAppRouter) THEN "appdir"
                                ELSE "pubdir"
                       \* initial: 0, the first choice, is the default answer
                       /\ req' = [req EXCEPT !.defaults =
                                    req.defaults /\ (prompted => selectedMode = "nextjs")]
  /\ UNCHANGED <<fs, fs0, cwd, gen, tasks, obs, written, response, faults, envChanges>>
  /\ UNCHANGED <<html, report>>

\* A confirmation that always continues with the initial value '.' of the
\* directory prompt
CliConfirm_Mut ==
  /\ pc = "confirm"
  /\ h' = [h EXCEPT !.outputDir = Resolve(cwd, <<".">>)]
  /\ pc' = "construct"
  /\ UNCHANGED <<fs, fs0, cwd, req, gen, tasks, obs, written, warnings, response, faults,
                 envChanges, html, report>>

\* "Generate icons in <dir>/?" and, when declined, "Enter output directory:"
CliConfirm ==
  /\ pc = "confirm"
  /\ \E useDetected \in BOOLEAN, dir \in {NoPath, <<".">>, <<"app">>} :
       IF useDetected
       THEN \* initial: true, the default answer
            /\ pc' = "construct"
            /\ UNCHANGED <<h, response, req>>
       ELSE IF dir = NoPath
            THEN /\ response' = [status |-> "cancelled", message |-> None,
                                 actualMode |-> None, files |-> {}]
                 /\ pc' = "exited"
                 /\ h' = h
                 /\ req' = [req EXCEPT !.defaults = FALSE]
            ELSE /\ h' = [h EXCEPT !.outputDir = Resolve(cwd, dir)]
                 /\ pc' = "construct"
                 /\ response' = response
                 /\ req' = [req EXCEPT !.defaults = FALSE]
  /\ UNCHANGED <<fs, fs0, cwd, gen, tasks, obs, written, warnings, faults, envChanges>>
  /\ UNCHANGED <<html, report>>

(***************************************************************************)
(* The generator is constructed: every surface passes sourcePath,          *)
(* outputDir, color and mode, and no projectRoot.                          *)
(***************************************************************************)
GeneratorOptions(locals) ==
  [sourcePath |-> locals.sourcePath, outputDir |-> locals.outputDir,
   color |-> locals.color, mode |-> locals.mode, projectRoot |-> NoPath]

Construct ==
  /\ pc = "construct"
  /\ gen' = [options |-> GeneratorOptions(h), mode |-> resolveMode(GeneratorOptions(h))]
  /\ pc' = "mkdir"
  /\ UNCHANGED <<fs, fs0, cwd, req, h, tasks, obs, written, warnings, response,
                 faults, envChanges>>
  /\ UNCHANGED <<html, report>>

(***************************************************************************)
(* generator.ts: generate(), one action per awaited operation.             *)
(***************************************************************************)
\* A snippet that derives the mode from the output directory again
SnippetMode_Mut(g) == IF IsAppPath(g.options.outputDir) THEN "nextjs" ELSE "traditional"

\* A manifest written whatever the mode
ManifestMode_Mut(g) == "traditional"

\* The mode each decision of generate() reads
FilterMode(g) == g.mode
PinnedTabMode(g) == g.mode
ManifestMode(g) == g.mode
SnippetMode(g) == g.mode
getMode(g) == g.mode

\* fs.mkdir(outputDir, {recursive: true}), then the catalog is filtered and
\* every generateIcon is started
Mkdir ==
  /\ pc = "mkdir"
  /\ fs' = fs \cup Ancestors(gen.options.outputDir)
  /\ obs' = [obs EXCEPT !.filter = FilterMode(gen)]
  /\ LET icons == iconsToGenerate(FilterMode(gen))
     IN  tasks' = [n \in {icons[i].filename : i \in 1..Len(icons)} |-> "pending"]
  /\ pc' = "fanout"
  /\ UNCHANGED <<fs0, cwd, req, h, gen, written, warnings, response, faults, envChanges>>
  /\ UNCHANGED <<html, report>>

\* A fan-out that records the failure of an operation and does not reject
TaskFails_Mut(n) ==
  /\ tasks' = [tasks EXCEPT ![n] = "failed"]
  /\ UNCHANGED <<pc, response>>

\* A per-asset operation fails: Promise.all rejects at the first failure,
\* generate() throws and the surface reports it
TaskFails(n) ==
  /\ tasks' = [tasks EXCEPT ![n] = "failed"]
  /\ IF pc = "fanout" THEN Fail("Generation failed")
     ELSE UNCHANGED <<pc, response>>

\* generateIcon: sharp(...).png().toFile(...)
TaskToFile(n) ==
  /\ pc # "exited"
  /\ n \in DOMAIN tasks
  /\ tasks[n] = "pending"
  /\ LET config == ConfigOf(n)
         target == ToFilePath(gen.options.outputDir, config)
     IN  IF Dirname(target) \in fs
         THEN /\ WriteFile(target, Image(OutputSize(config)))
              /\ tasks' = [tasks EXCEPT ![n] = IF config.format = "ico" THEN "rename"
                                               ELSE "done"]
              /\ UNCHANGED <<pc, response>>
         ELSE \* no such directory
              /\ TaskFails(n)
              /\ UNCHANGED <<fs, written>>
  /\ UNCHANGED <<fs0, cwd, req, h, gen, obs, warnings, faults, envChanges>>
  /\ UNCHANGED <<html, report>>

\* generateIcon, format 'ico': fs.rename of the .png to the .ico
TaskRename(n) ==
  /\ pc # "exited"
  /\ n \in DOMAIN tasks
  /\ tasks[n] = "rename"
  /\ LET config == ConfigOf(n)
         from == ToFilePath(gen.options.outputDir, config)
         to == Join(gen.options.outputDir, config.filename)
     IN  /\ fs' = (fs \ {from}) \cup {to}
         /\ written' = {w \in written : w.path \notin {from, to}}
                       \cup {[path |-> to, c |-> w.c] : w \in {x \in written : x.path = from}}
  /\ tasks' = [tasks EXCEPT ![n] = "done"]
  /\ UNCHANGED <<fs0, cwd, pc, req, h, gen, obs, warnings, response, faults, envChanges>>
  /\ UNCHANGED <<html, report>>

\* A write or rename of a per-asset operation fails (disk full, permission)
TaskFault(n) ==
  /\ pc # "exited"
  /\ n \in DOMAIN tasks
  /\ tasks[n] \in {"pending", "rename"}
  /\ faults < MaxFaults
  /\ faults' = faults + 1
  /\ TaskFails(n)
  /\ UNCHANGED <<fs, fs0, cwd, req, h, gen, obs, written, warnings, envChanges>>
  /\ UNCHANGED <<html, report>>

\* A barrier that opens as soon as one operation has completed
Join__Mut ==
  /\ pc = "fanout"
  /\ \E n \in DOMAIN tasks : tasks[n] = "done"
  /\ pc' = "svg"
  /\ UNCHANGED <<fs, fs0, cwd, req, h, gen, tasks, obs, written, warnings, response,
                 faults, envChanges>>
  /\ UNCHANGED <<html, report>>

\* await Promise.all(...) returns: every operation has completed
Join_ ==
  /\ pc = "fanout"
  /\ \A n \in DOMAIN tasks : tasks[n] = "done"
  /\ pc' = "svg"
  /\ UNCHANGED <<fs, fs0, cwd, req, h, gen, tasks, obs, written, warnings, response,
                 faults, envChanges>>
  /\ UNCHANGED <<html, report>>

\* if (isSourceSVG) copySVGSource() ... else console.warn
CopySVGSource ==
  /\ pc = "svg"
  /\ IF isSourceSVG(gen.options.sourcePath)
     THEN /\ WriteFile(Join(gen.options.outputDir, IconSvg), SvgCopy)
          /\ obs' = [obs EXCEPT !.pinned = PinnedTabMode(gen)]
          /\ pc' = IF PinnedTabMode(gen) = "traditional" THEN "pinned" ELSE "manifest"
          /\ warnings' = warnings
     ELSE /\ warnings' = warnings \cup {"Source is not SVG"}
          /\ pc' = "manifest"
          /\ UNCHANGED <<fs, written, obs>>
  /\ UNCHANGED <<fs0, cwd, req, h, gen, tasks, response, faults, envChanges>>
  /\ UNCHANGED <<html, report>>

GenerateSafariPinnedTab ==
  /\ pc = "pinned"
  /\ WriteFile(Join(gen.options.outputDir, SafariPinnedTab), Pinned(monochromeColor(gen.options)))
  /\ pc' = "manifest"
  /\ UNCHANGED <<fs0, cwd, req, h, gen, tasks, obs, warnings, response, faults, envChanges>>
  /\ UNCHANGED <<html, report>>

\* if (this.mode === 'traditional') generateManifest()
GenerateManifest ==
  /\ pc = "manifest"
  /\ obs' = [obs EXCEPT !.manifest = ManifestMode(gen)]
  /\ IF ManifestMode(gen) = "traditional"
     THEN WriteFile(Join(gen.options.outputDir, SiteWebmanifest), Manifest(ManifestIcons))
     ELSE UNCHANGED <<fs, written>>
  /\ pc' = "guide"
  /\ UNCHANGED <<fs0, cwd, req, h, gen, tasks, warnings, response, faults, envChanges>>
  /\ UNCHANGED <<html, report>>

GenerateHTMLSnippet ==
  /\ pc = "guide"
  /\ obs' = [obs EXCEPT !.guide = SnippetMode(gen)]
  /\ WriteFile(getInstructionsFilePath(gen.options),
               Guide(SnippetMode(gen),
                     IF SnippetMode(gen) = "nextjs" THEN None ELSE snippetColor(gen.options)))
  /\ pc' = "respond"
  /\ UNCHANGED <<fs0, cwd, req, h, gen, tasks, warnings, response, faults, envChanges>>
  /\ UNCHANGED <<html, report>>

\* One of the awaited operations of generate() outside the fan-out fails
StepFault ==
  /\ \/ pc \in {"mkdir", "pinned", "guide"}
     \/ pc = "svg" /\ isSourceSVG(gen.options.sourcePath)
     \/ pc = "manifest" /\ ManifestMode(gen) = "traditional"
  /\ faults < MaxFaults
  /\ faults' = faults + 1
  /\ Fail("Generation failed")
  /\ UNCHANGED <<fs, fs0, cwd, req, h, gen, tasks, obs, written, warnings, envChanges>>
  /\ UNCHANGED <<html, report>>

\* The file the success reports name as the integration guide
HtmlSnippetTxt == <<"html-snippet", ".txt">>

\* The files named under "Generated files" by the surface's success report
filesList(surface, actualMode, sourcePath) ==
  LET nextjs == {FaviconIco, IconPng, AppleIcon, AppleTouchIcon}
      vector == {IconSvg, SafariPinnedTab}
      raster == {FaviconIco, Icon192, Icon512, AppleTouchIcon, IconMaskable}
  IN  CASE surface = "generate_web_icons" ->
             (IF actualMode = "nextjs" THEN nextjs
              ELSE raster \cup vector \cup {SiteWebmanifest})
             \cup {HtmlSnippetTxt}
        [] surface = "auto_generate_icons" ->
             (IF actualMode = "nextjs" THEN nextjs ELSE {SiteWebmanifest})
             \cup {HtmlSnippetTxt}
        [] OTHER ->
             (IF actualMode = "nextjs"
              THEN nextjs \cup (IF isSourceSVG(sourcePath) THEN {IconSvg} ELSE {})
              ELSE raster \cup {SiteWebmanifest}
                   \cup (IF isSourceSVG(sourcePath) THEN vector ELSE {}))
             \cup {HtmlSnippetTxt}

\* generate() returned: the surface reports success with generator.getMode()
Respond ==
  /\ pc = "respond"
  /\ response' = [status |-> "ok", message |-> None, actualMode |-> getMode(gen),
                  files |-> filesList(req.surface, getMode(gen), gen.options.sourcePath)]
  /\ pc' = "done"
  /\ UNCHANGED <<fs, fs0, cwd, req, h, gen, tasks, obs, written, warnings, faults, envChanges>>
  /\ UNCHANGED <<html, report>>

(***************************************************************************)
(* The project tree changes while the handler is between two awaits: the   *)
(* app directory or the framework's config file appears or disappears.     *)
(***************************************************************************)
EnvPaths == {Join(cwd, <<"app">>), Join(cwd, <<"next.config", ".js">>)}

EnvChange ==
  /\ pc \in {"detect", "probe", "resolve", "appdir", "pubdir"}
  /\ envChanges < MaxEnvChanges
  /\ envChanges' = envChanges + 1
  /\ \E p \in EnvPaths : fs' = IF p \in fs THEN fs \ {p} ELSE fs \cup {p}
  /\ UNCHANGED <<fs0, cwd, pc, req, h, gen, tasks, obs, written, warnings, response, faults>>
  /\ UNCHANGED <<html, report>>

(***************************************************************************)
(* mcp.ts: the CallToolRequest handler's default branch.                   *)
(***************************************************************************)
\* throw new Error(`Unknown tool: ${name}`), caught by the handler
UnknownToolCall ==
  /\ pc = "idle"
  /\ req' = [NoReq EXCEPT !.surface = "unknown_tool"]
  /\ Fail("Unknown tool")
  /\ fs0' = fs
  /\ UNCHANGED <<fs, cwd, h, gen, tasks, obs, written, warnings, faults, envChanges,
                 html, report>>

(***************************************************************************)
(* mcp.ts: check_icons_status.                                             *)
(***************************************************************************)
\* A list of required icons that leaves out the vector copy
REQUIRED_ICONS_Mut ==
  <<FaviconIco, Icon192, Icon512, AppleTouchIcon, IconMaskable, SafariPinnedTab,
    SiteWebmanifest>>

REQUIRED_ICONS ==
  <<FaviconIco, IconSvg, Icon192, Icon512, AppleTouchIcon, IconMaskable, SafariPinnedTab,
    SiteWebmanifest>>

\* What a tool other than the two generating ones answered
Answer(tool, target, outcome, isError) ==
  [tool |-> tool, arg |-> NoPath, target |-> target, outcome |-> outcome,
   isError |-> isError, before |-> <<>>, after |-> <<>>, markup |-> <<>>, publicDir |-> NoPath,
   existing |-> <<>>, missing |-> <<>>, appIcon |-> NoPath]

\* handleCheckIconsStatus: the static directory, the conventional source and
\* the presence of every required icon are looked up; nothing is written
CheckIconsStatus ==
  /\ pc \in {"idle", "done"}
  /\ report = <<>>
  \* no per-asset operation of an earlier call is still running
  /\ \A n \in DOMAIN tasks : tasks[n] \in {"done", "failed"}
  /\ LET publicDir == getPublicDir(fs, cwd)
         exists(name) == Access(fs, Join(publicDir, name))
         absent(name) == ~exists(name)
     IN  report' = Append(report,
                     [Answer("check_icons_status", cwd, "status", FALSE) EXCEPT
                        !.publicDir = publicDir,
                        !.existing = SelectSeq(REQUIRED_ICONS, exists),
                        !.missing = SelectSeq(REQUIRED_ICONS, absent),
                        !.appIcon = findAppIcon(fs, cwd)])
  /\ pc' = "checked"
  /\ UNCHANGED <<fs, fs0, cwd, req, h, gen, tasks, obs, written, warnings, response,
                 faults, envChanges, html>>

(***************************************************************************)
(* mcp.ts: integrate_icons_html.  A page is a sequence of tokens: ">" is   *)
(* the character that closes a tag, "<head" (in either case) the five      *)
(* characters that open one, so "<header" is "<head" followed by "er".     *)
(***************************************************************************)
\* The template literal iconTags
iconTags(color) ==
  <<"<!-- Favicon (modern + fallback) --", ">",
    "<link rel=icon href=/icon.svg type=image/svg+xml", ">",
    "<link rel=icon href=/favicon.ico sizes=any", ">",
    "<!-- Apple Touch Icon --", ">",
    "<link rel=", "app", "le-touch-icon", " href=/", "app", "le-touch-icon", ".png", ">",
    "<!-- Web App Manifest (PWA) --", ">",
    "<link rel=manifest href=/", "site", ".webmanifest", ">",
    "<!-- Safari Pinned Tab --", ">",
    "<link rel=mask-icon href=/safari-pinned-tab.svg color=", color, ">">>

\* A test for earlier integration that looks for a marker comment
AlreadyIntegrated_Mut(htmlContent) ==
  Includes(htmlContent, <<"<!-- web-icons --", ">">>)

\* htmlContent.includes('apple-touch-icon') || htmlContent.includes('site.webmanifest')
AlreadyIntegrated(htmlContent) ==
  \/ Includes(htmlContent, <<"app", "le-touch-icon">>)
  \/ Includes(htmlContent, <<"site", ".webmanifest">>)

\* The flag i of the pattern
IsHeadOpen(t) == t \in {"<head", "<HEAD"}

\* htmlContent.match(/(<head[^>]*>)/i): where the first match starts and
\* where it ends, 0 and 0 when there is none
headMatch(htmlContent) ==
  LET closes(i) == {j \in (i + 1)..Len(htmlContent) : htmlContent[j] = ">"}
      opens == {i \in 1..Len(htmlContent) : IsHeadOpen(htmlContent[i]) /\ closes(i) # {}}
  IN  IF opens = {} THEN [index |-> 0, end |-> 0]
      ELSE LET i == CHOOSE x \in opens : \A y \in opens : x <= y
               j == CHOOSE x \in closes(i) : \A y \in closes(i) : x <= y
           IN  [index |-> i, end |-> j]

\* The inserted text: '\\n  ' + iconTags.split('\\n').join('\\n  ') + '\\n',
\* where '\\n' is a backslash and an n, which iconTags does not contain
IconBlock(color) == <<"\\n  ">> \o iconTags(color) \o <<"\\n">>

\* updatedHTML
Splice(htmlContent, headEndIndex, color) ==
  SubSeq(htmlContent, 1, headEndIndex) \o IconBlock(color)
    \o SubSeq(htmlContent, headEndIndex + 1, Len(htmlContent))

IndexHtml == <<"index", ".html">>

\* findHTMLEntryPoint: the candidates, in the order they are tried
HtmlCandidates ==
  << IndexHtml,
     <<"public", SEP, "index", ".html">>,
     <<"src", SEP, "index", ".html">>,
     <<"app", SEP, "index", ".html">>,
     <<"src", SEP, "app", SEP, "layout", ".tsx">>,
     <<"src", SEP, "routes", SEP, "+layout", ".svelte">>,
     <<"src", SEP, "pages", SEP, "_document", ".tsx">>,
     <<"app", SEP, "root", ".tsx">> >>

\* A search that keeps the last candidate that exists
findHTMLEntryPoint_Mut(f, projectPath) ==
  LET found == {k \in 1..Len(HtmlCandidates) : Access(f, Join(projectPath, HtmlCandidates[k]))}
  IN  IF found = {} THEN Join(projectPath, IndexHtml)
      ELSE Join(projectPath, HtmlCandidates[CHOOSE k \in found : \A l \in found : l <= k])

findHTMLEntryPoint(f, projectPath) ==
  LET found == {k \in 1..Len(HtmlCandidates) : Access(f, Join(projectPath, HtmlCandidates[k]))}
  IN  IF found = {} THEN Join(projectPath, IndexHtml)
      ELSE Join(projectPath, HtmlCandidates[CHOOSE k \in found : \A l \in found : k <= l])

\* fs.readFile(htmlFile, 'utf-8')
ReadFile(p) == IF p \in DOMAIN html THEN html[p] ELSE <<>>

HtmlPathOpts ==
  {NoPath, IndexHtml, <<"src", SEP, "index", ".html">>, <<"missing", ".html">>}
HtmlColors == {None, "#112233"}

\* handleIntegrateIconsHTML
IntegrateIconsHTML ==
  /\ pc \in {"idle", "integrated"}
  /\ Len(report) < MaxCalls
  /\ \E htmlPath \in HtmlPathOpts, c \in HtmlColors :
       LET color == OrElse(c, "#5bbad5")
           htmlFile == IF htmlPath # NoPath THEN Resolve(cwd, htmlPath)
                       ELSE findHTMLEntryPoint(fs, cwd)
           htmlContent == ReadFile(htmlFile)
           m == headMatch(htmlContent)
           updatedHTML == Splice(htmlContent, m.end, color)
           answer(outcome, isError, after, markup) ==
             [Answer("integrate_icons_html", htmlFile, outcome, isError) EXCEPT
                !.arg = htmlPath, !.before = htmlContent, !.after = after,
                !.markup = markup]
       IN  IF ~Access(fs, htmlFile)
           THEN \* throw new Error(`HTML file not found: ...`)
                /\ report' = Append(report, answer("HTML file not found", TRUE, <<>>, <<>>))
                /\ html' = html
           ELSE IF AlreadyIntegrated(htmlContent)
           THEN /\ report' = Append(report, answer("Icon tags appear to already exist",
                                                   FALSE, htmlContent, iconTags(color)))
                /\ html' = html
           ELSE IF m.index # 0
           THEN \* fs.writeFile(htmlFile, updatedHTML)
                /\ html' = [p \in DOMAIN html \cup {htmlFile} |->
                              IF p = htmlFile THEN updatedHTML ELSE html[p]]
                /\ report' = Append(report, answer("Successfully added icon tags",
                                                   FALSE, updatedHTML, iconTags(color)))
           ELSE /\ report' = Append(report, answer("Could not find <head> tag",
                                                   FALSE, htmlContent, iconTags(color)))
                /\ html' = html
  /\ pc' = "integrated"
  /\ fs0' = fs
  /\ UNCHANGED <<fs, cwd, req, h, gen, tasks, obs, written, warnings, response, faults,
                 envChanges>>

(***************************************************************************)
(* Specifications.                                                         *)
(***************************************************************************)
Next ==
  \/ GenerateWebIconsCall
  \/ AutoGenerateIconsCall
  \/ CliStart
  \/ ValidateSource
  \/ Detect
  \/ Probe
  \/ McpResolve
  \/ CliResolve
  \/ GetAppDir
  \/ GetPublicDir
  \/ CliConfirm
  \/ Construct
  \/ Mkdir
  \/ \E n \in DOMAIN tasks : TaskToFile(n)
  \/ \E n \in DOMAIN tasks : TaskRename(n)
  \/ \E n \in DOMAIN tasks : TaskFault(n)
  \/ Join_
  \/ CopySVGSource
  \/ GenerateSafariPinnedTab
  \/ GenerateManifest
  \/ GenerateHTMLSnippet
  \/ StepFault
  \/ Respond
  \/ UnknownToolCall
  \/ CheckIconsStatus
  \/ IntegrateIconsHTML

\* The project tree does not change during a run
Spec == Init /\ [][Next]_vars

NextEnv == Next \/ EnvChange

\* The project tree may change during a run
SpecEnv == Init /\ [][NextEnv]_vars


(***************************************************************************)
(* validateSourceFile on its own: a request with any of the candidate      *)
(* paths has been received and the validation runs.                        *)
(***************************************************************************)
MissingTxt == <<"missing", ".txt">>
PhotoJpg == <<"photo", ".jpg">>
PhotoJPEG == <<"photo", ".JPEG">>
ScanGif == <<"scan", ".gif">>
Makefile == <<"Makefile">>
DotSvg == <<".svg">>
MissingJpeg == <<"gone", ".jpeg">>

ValidateFiles == {PhotoJpg, PhotoJPEG, ScanGif, Makefile, DotSvg}
Candidates == Sources \cup ValidateFiles \cup {MissingTxt, MissingJpeg}

InitValidate ==
  /\ \E P \in Projects :
       /\ cwd = P.root
       /\ fs = ProjectFs(P) \cup {Join(P.root, f) : f \in ValidateFiles}
  /\ fs0 = fs
  /\ pc = "validate"
  /\ \E surface \in {"generate_web_icons", "cli"}, src \in Candidates :
       /\ req = [NoReq EXCEPT !.surface = surface, !.mode = "auto", !.source = src]
       /\ h = [NoLocals EXCEPT !.sourcePath = Resolve(cwd, src), !.color = "#5bbad5",
                               !.mode = "auto"]
  /\ gen = NoGen
  /\ tasks = <<>>
  /\ obs = NoObs
  /\ written = {}
  /\ warnings = {}
  /\ response = NoResponse
  /\ faults = 0
  /\ envChanges = 0
  /\ html = NoDocs
  /\ report = <<>>

NextValidate == ValidateSource

SpecValidate == InitValidate /\ [][NextValidate]_vars


(***************************************************************************)
(* integrate_icons_html on projects that have page files.                  *)
(***************************************************************************)
DocHead == <<"<html", ">", "<head", ">", "<title", ">", "</head", ">">>
DocHeadAttr == <<"<HEAD", " lang=en", ">", "</HEAD", ">">>
DocNoHead == <<"<div", ">", "</div", ">">>
DocHeader == <<"<body", ">", "<head", "er", ">", "</head", "er", ">">>
DocIcons == <<"<head", ">", "<link rel=manifest href=/", "site", ".webmanifest", ">">>
Docs == {DocHead, DocHeadAttr, DocNoHead, DocHeader, DocIcons}

\* The page files of a project: none, two neighbours of the candidate list,
\* or the last candidate alone
HtmlLayouts ==
  {{}} \cup {{HtmlCandidates[k], HtmlCandidates[k + 1]} : k \in 1..(Len(HtmlCandidates) - 1)}
       \cup {{HtmlCandidates[Len(HtmlCandidates)]}}

InitHtml ==
  /\ cwd = ProjRoot
  /\ \E L \in HtmlLayouts :
       /\ fs = ProjectFs([root |-> ProjRoot, files |-> L])
       /\ html \in [{Join(ProjRoot, f) : f \in L} -> Docs]
  /\ fs0 = fs
  /\ pc = "idle"
  /\ req = NoReq
  /\ h = NoLocals
  /\ gen = NoGen
  /\ tasks = <<>>
  /\ obs = NoObs
  /\ written = {}
  /\ warnings = {}
  /\ response = NoResponse
  /\ faults = 0
  /\ envChanges = 0
  /\ report = <<>>

NextHtml == IntegrateIconsHTML

SpecHtml == InitHtml /\ [][NextHtml]_vars

(***************************************************************************)
(* check_icons_status on projects in which some of the icons exist.        *)
(***************************************************************************)
IconDirs == {<<"public">>, <<"static">>, <<"app">>}
RequiredSet == {REQUIRED_ICONS[k] : k \in 1..Len(REQUIRED_ICONS)}

InitStatus ==
  /\ \E P \in Projects, dir \in IconDirs, present \in SUBSET RequiredSet :
       /\ cwd = P.root
       /\ fs = ProjectFs(P) \cup UNION {Ancestors(Join(Join(P.root, dir), n)) : n \in present}
  /\ fs0 = fs
  /\ pc = "idle"
  /\ req = NoReq
  /\ h = NoLocals
  /\ gen = NoGen
  /\ tasks = <<>>
  /\ obs = NoObs
  /\ written = {}
  /\ warnings = {}
  /\ response = NoResponse
  /\ faults = 0
  /\ envChanges = 0
  /\ html = NoDocs
  /\ report = <<>>

NextStatus == CheckIconsStatus

SpecStatus == InitStatus /\ [][NextStatus]_vars


(***************************************************************************)
(* The detection and the directory lookup of auto_generate_icons on        *)
(* project trees with any combination of config files and app directories. *)
(***************************************************************************)
ConfigFiles ==
  { <<"next.config", ".mjs">>, <<"astro.config", ".ts">>, <<"svelte.config", ".js">>,
    <<"remix.config", ".js">>, <<"vite.config", ".ts">>, <<"vite.config", ".js">>,
    <<"src", SEP, "next.config", ".js">> }
AppLayouts == {{}, {<<"app">>}, {<<"src", SEP, "app">>}, {<<"app">>, <<"src", SEP, "app">>}}

InitDetect ==
  /\ cwd = ProjRoot
  /\ \E configs \in SUBSET ConfigFiles, dirs \in AppLayouts :
       fs = ProjectFs([root |-> ProjRoot, files |-> configs \cup dirs \cup {AppIconSvg}])
  /\ fs0 = fs
  /\ pc = "idle"
  /\ req = NoReq
  /\ h = NoLocals
  /\ gen = NoGen
  /\ tasks = <<>>
  /\ obs = NoObs
  /\ written = {}
  /\ warnings = {}
  /\ response = NoResponse
  /\ faults = 0
  /\ envChanges = 0
  /\ html = NoDocs
  /\ report = <<>>

NextDetect ==
  \/ AutoGenerateIconsCall
  \/ Detect
  \/ Probe
  \/ McpResolve
  \/ GetAppDir
  \/ GetPublicDir

SpecDetect == InitDetect /\ [][NextDetect]_vars


(***************************************************************************)
(* Properties.                                                             *)
(***************************************************************************)
Constructed == gen.mode # None
Succeeded == response.status = "ok"
WrittenPaths == {w.path : w \in written}
WrittenKind(kind) == {w \in written : w.c.kind = kind}
OutputDir == gen.options.outputDir
ExplicitAppDir == req.outputDir # NoPath /\ Basename(Resolve(cwd, req.outputDir)) = <<"app">>
CatalogSet == {ICON_CONFIGS[i] : i \in 1..Len(ICON_CONFIGS)}
\* The source path ends in .svg, whatever the case of the letters
VectorSource == gen.options.sourcePath[Len(gen.options.sourcePath)] \in {".svg", ".SVG"}
\* The names of the entries of directory d in file system f
DirListing(f, d) == {Basename(p) : p \in {q \in f : Len(q) > Len(d) /\ Dirname(q) = d}}

C2_AutoModeFollowsAppRouter ==
  (Constructed /\ IsMcp /\ req.mode = "auto" /\ req.outputDir = NoPath) =>
     LET framework == detect(fs0, cwd)
         onDisk == /\ framework.appDir # NoPath
                   /\ \/ Join(cwd, framework.appDir) \in fs0
                      \/ Join(Join(cwd, <<"src">>), framework.appDir) \in fs0
     IN  /\ gen.mode \in {"nextjs", "traditional"}
         /\ gen.mode = "nextjs" <=> onDisk

C2_Witness ==
  /\ Succeeded /\ req.surface = "auto_generate_icons" /\ req.mode = "auto"
  /\ gen.mode = "nextjs"
  /\ Join(cwd, <<"app">>) \notin fs0 /\ Join(cwd, <<"src", SEP, "app">>) \in fs0

\* C3: one run has one mode: the asset filter, the pinned-tab decision, the
\* manifest decision and the guide branch observe the same two-valued mode,
\* which is the mode the surface resolved and chose the directory with and
\* the mode it reports.
C3_OneModePerRun ==
  Constructed =>
     /\ gen.mode \in {"traditional", "nextjs"}
     /\ gen.mode = h.mode
     /\ \A k \in DOMAIN obs : obs[k] # None => obs[k] = gen.mode
     /\ Succeeded => response.actualMode = gen.mode

C3_Witness ==
  /\ Succeeded
  /\ \A k \in DOMAIN obs : obs[k] = "traditional"
  /\ IsAppPath(OutputDir)

\* C4 (as stated): a tool run with mode 'auto' and no output directory never
\* ends with a resolved mode that disagrees with the directory it writes to,
\* whatever happens to the project tree during the run.
C4_ModeAgreesWithDirectory ==
  (Constructed /\ IsMcp /\ req.mode = "auto" /\ req.outputDir = NoPath) =>
     (gen.mode = "nextjs" <=> Basename(OutputDir) = <<"app">>)

\* C5: after a successful generate(), the output directory holds every
\* catalog asset of the resolved mode or of both modes, and the run wrote no
\* catalog asset that belongs to the other mode only.
C5_AssetsOfTheMode ==
  Succeeded =>
     /\ \A config \in CatalogSet :
        IF config.mode \in {gen.mode, "both"}
        THEN /\ Join(OutputDir, config.filename) \in fs
             /\ \E w \in WrittenKind("image") : w.path = Join(OutputDir, config.filename)
        ELSE Join(OutputDir, config.filename) \notin WrittenPaths
     /\ {Basename(w.path) : w \in WrittenKind("image")} =
          IF gen.mode = "traditional"
          THEN {FaviconIco, Icon192, Icon512, AppleTouchIcon, IconMaskable}
          ELSE {FaviconIco, AppleTouchIcon, IconPng, AppleIcon}

C5_Witness ==
  /\ Succeeded /\ gen.mode = "nextjs"
  /\ Join(OutputDir, AppleIcon) \in WrittenPaths
  /\ Join(OutputDir, FaviconIco) \in WrittenPaths

\* C6 (as stated): the maskable icon that is written has the side the
\* catalog declares (512): the inner image plus the padding of two opposite
\* sides adds up to the canvas.
C6_MaskableHasCatalogSize ==
  \A w \in written :
     Basename(w.path) = IconMaskable => w.c.size = ConfigOf(IconMaskable).size

\* C7 (as stated): a successful traditional run on a vector source with the
\* default color into an empty ./public leaves exactly the eight files there.
C7_ExactlyEightFiles ==
  ( /\ Succeeded
    /\ req.mode = "traditional" /\ req.outputDir = <<"public">> /\ req.color = None
    /\ VectorSource
    /\ DirListing(fs0, OutputDir) = {} ) =>
     DirListing(fs, OutputDir) =
        {FaviconIco, IconSvg, Icon192, Icon512, AppleTouchIcon, IconMaskable,
         SafariPinnedTab, SiteWebmanifest}

\* C8 (as stated): the directory that receives the integration guide is not
\* the directory that receives the icon assets.
C8_GuideOutsideOutputDir ==
  \A w \in WrittenKind("guide") : Dirname(w.path) # OutputDir

\* C9: after a successful run site.webmanifest has been written exactly when
\* the mode is traditional; a manifest that is written lists three icons,
\* 192x192, 512x512 and 512x512 with purpose maskable, in this order, and
\* each src names an image the same run wrote to the output directory.
C9_Manifest ==
  /\ Succeeded =>
       (Join(OutputDir, SiteWebmanifest) \in WrittenPaths <=> gen.mode = "traditional")
  /\ \A w \in WrittenKind("manifest") :
       /\ gen.mode = "traditional"
       /\ w.path = Join(OutputDir, SiteWebmanifest)
       /\ Len(w.c.icons) = 3
       /\ [i \in 1..3 |-> w.c.icons[i].sizes] = << <<192, 192>>, <<512, 512>>, <<512, 512>> >>
       /\ [i \in 1..3 |-> w.c.icons[i].purpose] = <<None, None, "maskable">>
       /\ \A i \in 1..3 :
            /\ Head(w.c.icons[i].src) = SEP
            /\ \E x \in WrittenKind("image") :
                 x.path = Join(OutputDir, Tail(w.c.icons[i].src))
  /\ \A w \in written : Basename(w.path) = SiteWebmanifest => w.c.kind = "manifest"

C9_Witness ==
  /\ Succeeded /\ gen.mode = "traditional"
  /\ \E w \in WrittenKind("manifest") : w.path = Join(OutputDir, SiteWebmanifest)

\* C10: after a successful run icon.svg has been written exactly when the
\* source path ends in .svg (in any case), in both modes, and
\* safari-pinned-tab.svg exactly when moreover the mode is traditional; for
\* any other source neither is written, a warning is emitted, and the run
\* succeeds all the same.
C10_VectorArtifacts ==
  Succeeded =>
     /\ Join(OutputDir, IconSvg) \in WrittenPaths <=> VectorSource
     /\ Join(OutputDir, SafariPinnedTab) \in WrittenPaths
          <=> (VectorSource /\ gen.mode = "traditional")
     /\ ~VectorSource => "Source is not SVG" \in warnings
     /\ VectorSource => "Source is not SVG" \notin warnings

C10_Witness ==
  /\ Succeeded /\ ~VectorSource /\ gen.mode = "nextjs"
  /\ "Source is not SVG" \in warnings
  /\ Join(OutputDir, IconSvg) \notin WrittenPaths

\* The directories a run can target without an output-directory option
AppDirs == {Join(cwd, <<"app">>), Join(cwd, <<"src", SEP, "app">>)}
StaticDirs == {Join(cwd, <<"public">>), Join(cwd, <<"static">>)}
AppRouterAssets == {FaviconIco, IconPng, AppleIcon, AppleTouchIcon}

\* C11: whenever the resolved mode of a run is app-router and no output
\* directory was given as an option, the generator never targets the static
\* asset directory and no app-router asset is written there; on the tools,
\* where no directory can be typed at a prompt, the target is the project's
\* app directory (app/ or src/app/), also when 'nextjs' was requested on a
\* project without an app directory.
C11_AppRouterModeWritesIntoAppDir ==
  (Constructed /\ gen.mode = "nextjs" /\ req.outputDir = NoPath) =>
     /\ OutputDir \notin StaticDirs
     /\ \A w \in written :
          Basename(w.path) \in AppRouterAssets => Dirname(w.path) \notin StaticDirs
     /\ IsMcp => OutputDir \in AppDirs

\* C12: if the write of any one catalog asset fails during the concurrent
\* per-asset step, the surface reports an error, and neither the manifest
\* nor the integration guide nor the vector copies (icon.svg,
\* safari-pinned-tab.svg) are written by that run: a run with a failed asset
\* is never reported as a success.
C12_FanOutFailureAborts ==
  (\E n \in DOMAIN tasks : tasks[n] = "failed") =>
     /\ response.status = "error"
     /\ response.message # None
     /\ WrittenKind("manifest") = {}
     /\ WrittenKind("guide") = {}
     /\ WrittenKind("svgcopy") = {}
     /\ WrittenKind("pinned") = {}
     /\ pc \in {"done", "exited", "checked"}

\* One asset failed after another one had been written
C12_Witness ==
  /\ \E n \in DOMAIN tasks : tasks[n] = "failed"
  /\ \E n \in DOMAIN tasks : tasks[n] = "done"
  /\ WrittenKind("image") # {}
  /\ response.status = "error"

\* The extensions of the allow-list in every spelling the candidates use
AllowedSpellings == {".svg", ".SVG", ".png", ".PNG", ".jpg", ".jpeg", ".JPEG"}
HasAllowedExtension(p) ==
  Len(Basename(p)) >= 2 /\ p[Len(p)] \in AllowedSpellings

\* C13: once the validation has run, it has failed with the not-found error
\* when the path is inaccessible (whatever its extension), with the
\* unsupported-format error when the path is accessible and its extension,
\* compared without regard to case, is not .svg, .png, .jpg or .jpeg, and it
\* has passed silently otherwise, and only then.
C13_SourceValidation ==
  (req.surface \in {"generate_web_icons", "cli"} /\ h.sourcePath # NoPath
     /\ pc # "validate") =>
     LET accessible == h.sourcePath \in fs0
         allowed == HasAllowedExtension(h.sourcePath)
     IN  /\ ~accessible =>
              response.status = "error" /\ response.message = "Source file not found"
         /\ (accessible /\ ~allowed) =>
              response.status = "error" /\ response.message = "Invalid file format"
         /\ (accessible /\ allowed) =>
              /\ response.message \notin {"Source file not found", "Invalid file format"}
              /\ (pc = "detect" => response.status = "none" /\ warnings = {})

\* A path that is both missing and of a format outside the list is reported
\* as missing
C13_Witness ==
  /\ h.sourcePath = Join(cwd, MissingTxt)
  /\ response.message = "Source file not found"

\* The calls of integrate_icons_html that found their target
Integrations ==
  {i \in 1..Len(report) : report[i].tool = "integrate_icons_html" /\ ~report[i].isError}
\* The page has an opening tag whose name is head, in either case
HasHeadTag(page) ==
  \E i \in 1..Len(page) :
     /\ page[i] \in {"<head", "<HEAD"}
     /\ \E j \in (i + 1)..Len(page) : page[j] = ">"
     /\ page[i + 1] # "er"
\* The page names one of the icon files the tool links
HasIconTags(page) ==
  \E i \in 1..Len(page) : page[i] \in {"le-touch-icon", ".webmanifest"}
\* How many times the inserted block starts in the page
BlockStarts(page) == Cardinality({i \in 1..Len(page) : page[i] = "\\n  "})

\* C14: for a file with an opening <head> tag and no prior icon tags, the
\* first integrate_icons_html call modifies the file, and every later call
\* on the same file leaves its content unchanged and reports that icon tags
\* already exist; no file ever holds the icon block twice.
C14_IntegrationIdempotent ==
  /\ \A i \in Integrations :
       LET r == report[i]
           earlier == {j \in Integrations : j < i /\ report[j].target = r.target}
       IN  /\ (earlier = {} /\ HasHeadTag(r.before) /\ ~HasIconTags(r.before)) =>
                /\ r.after # r.before
                /\ r.outcome = "Successfully added icon tags"
                /\ BlockStarts(r.after) = 1
           /\ (\E j \in earlier : report[j].after # report[j].before) =>
                /\ r.after = r.before
                /\ r.outcome = "Icon tags appear to already exist"
           /\ (\A j \in Integrations : j > i => report[j].target # r.target) =>
                html[r.target] = r.after
  /\ \A p \in DOMAIN html : BlockStarts(html[p]) <= 1

\* The same file was integrated twice: modified, then found integrated
C14_Witness ==
  /\ Len(report) = 2
  /\ report[1].target = report[2].target
  /\ report[1].outcome = "Successfully added icon tags"
  /\ report[2].outcome = "Icon tags appear to already exist"
  /\ html[report[2].target] = report[1].after

\* C15: if the target file has no opening <head> tag, integrate_icons_html
\* writes nothing, the file's content is unchanged, and the icon markup is
\* returned as text for manual insertion in an answer that is not an error.
C15_NoHeadNoWrite ==
  \A i \in Integrations :
     LET r == report[i]
     IN  ~HasHeadTag(r.before) =>
           /\ r.after = r.before
           /\ ~r.isError
           /\ r.markup # <<>>
           /\ Includes(r.markup, <<"app", "le-touch-icon", ".png">>)

\* The candidate order of the claim, spelled out
C16_Order ==
  << <<"index", ".html">>,
     <<"public", SEP, "index", ".html">>,
     <<"src", SEP, "index", ".html">>,
     <<"app", SEP, "index", ".html">>,
     <<"src", SEP, "app", SEP, "layout", ".tsx">>,
     <<"src", SEP, "routes", SEP, "+layout", ".svelte">>,
     <<"src", SEP, "pages", SEP, "_document", ".tsx">>,
     <<"app", SEP, "root", ".tsx">> >>
C16_Expected ==
  IF \E k \in 1..Len(C16_Order) : Join(cwd, C16_Order[k]) \in fs
  THEN Join(cwd, C16_Order[CHOOSE k \in 1..Len(C16_Order) :
                             /\ Join(cwd, C16_Order[k]) \in fs
                             /\ \A l \in 1..(k - 1) : Join(cwd, C16_Order[l]) \notin fs])
  ELSE Join(cwd, <<"index", ".html">>)
C16_Resolved ==
  \A i \in 1..Len(report) :
     LET r == report[i]
     IN  r.tool = "integrate_icons_html" =>
           /\ r.arg = NoPath => r.target = C16_Expected
           /\ r.arg # NoPath => r.target = Join(cwd, r.arg)
           /\ r.target \notin fs <=> r.isError
           /\ r.isError => r.outcome = "HTML file not found" /\ r.markup = <<>>
C16_NothingTouched ==
  (/\ Len(report') = Len(report) + 1
   /\ report'[Len(report')].tool = "integrate_icons_html"
   /\ report'[Len(report')].isError) => (fs' = fs /\ html' = html /\ written' = written)

\* C16: with no explicit htmlPath the target is the first existing path in
\* the order index.html, public/index.html, src/index.html, app/index.html,
\* src/app/layout.tsx, src/routes/+layout.svelte, src/pages/_document.tsx,
\* app/root.tsx, and <root>/index.html when none exists; when the resolved
\* target does not exist the call fails with the not-found error, and that
\* call creates and modifies no file.
C16_HtmlTargetResolution == [](C16_Resolved) /\ [][C16_NothingTouched]_vars

\* The second of two existing candidates was passed over, and a call whose
\* target is missing failed
C16_Witness ==
  /\ Len(report) = 2
  /\ report[1].arg = NoPath /\ report[1].target = Join(cwd, C16_Order[3])
  /\ Join(cwd, C16_Order[4]) \in fs
  /\ report[2].target \notin fs /\ report[2].isError

\* The framework the claim's order names for the tree the run started on
HasAnyOf(names) == \E n \in names : Join(cwd, n) \in fs0
C17_Expected ==
  IF HasAnyOf({<<"next.config", ".js">>, <<"next.config", ".mjs">>, <<"next.config", ".ts">>})
  THEN "Next.js"
  ELSE IF HasAnyOf({<<"astro.config", ".mjs">>, <<"astro.config", ".js">>,
                     <<"astro.config", ".ts">>})
  THEN "Astro"
  ELSE IF HasAnyOf({<<"svelte.config", ".js">>}) THEN "SvelteKit"
  ELSE IF HasAnyOf({<<"remix.config", ".js">>}) THEN "Remix"
  ELSE IF HasAnyOf({<<"vite.config", ".js">>, <<"vite.config", ".ts">>}) THEN "Vite"
  ELSE None
C17_ExpectedStaticDir ==
  Join(cwd, IF C17_Expected = "SvelteKit" THEN <<"static">> ELSE <<"public">>)
DetectRan == pc \in {"probe", "resolve", "appdir", "pubdir", "confirm", "construct"}
ProbeRan == pc \in {"resolve", "appdir", "pubdir", "confirm", "construct"}

\* C17: once detect() has run, its answer is the first framework in the
\* order Next.js, Astro, SvelteKit, Remix, Vite one of whose config files is
\* directly under the root, and none when there is no such file; detection
\* has reported no error; and the static asset directory a tool looks up
\* is the detected framework's declared directory under the root, or
\* <root>/public when none is detected.
C17_DetectFirstMatch ==
  /\ DetectRan =>
       /\ h.framework.name = C17_Expected
       /\ C17_Expected = None <=> h.framework = NoFramework
       /\ response.status # "error"
  /\ (IsMcp /\ pc = "construct" /\ req.outputDir = NoPath) =>
       /\ h.mode = "traditional" => h.outputDir = C17_ExpectedStaticDir
       /\ h.outputDir \notin AppDirs => h.outputDir = C17_ExpectedStaticDir

\* Three frameworks match and the first of them in catalog order is taken
C17_Witness ==
  /\ pc = "construct"
  /\ h.framework.name = "Astro"
  /\ Join(cwd, <<"svelte.config", ".js">>) \in fs
  /\ Join(cwd, <<"vite.config", ".ts">>) \in fs
  /\ h.outputDir = Join(cwd, <<"public">>)

\* C18: for a project with no Next.js config file under its root (the
\* detected framework declares no app-router directory, or none is
\* detected), the app-router probe answers false and no app directory is
\* looked up, whether or not app/ or src/app/ exists; with mode 'auto' and
\* no output directory such a project resolves to traditional mode and is
\* given no app directory.
C18_NoAppRouterWithoutDeclaration ==
  (C17_Expected # "Next.js") =>
     /\ ProbeRan => (h.hasAppRouter = FALSE /\ pc # "appdir")
     /\ (pc = "construct" /\ req.mode = "auto" /\ req.outputDir = NoPath) =>
          /\ h.mode = "traditional"
          /\ IsMcp => h.outputDir \notin AppDirs

\* No framework is detected, app/ exists, and 'auto' became traditional
C18_Witness ==
  /\ pc = "construct"
  /\ req.mode = "auto"
  /\ h.framework = NoFramework
  /\ Join(cwd, <<"app">>) \in fs
  /\ h.mode = "traditional"
  /\ h.outputDir = Join(cwd, <<"public">>)

\* The eight required file names of the claim
C19_Required ==
  { <<"favicon", ".ico">>, <<"icon", ".svg">>, <<"icon-192", ".png">>,
    <<"icon-512", ".png">>, <<"app", "le-touch-icon", ".png">>,
    <<"icon-maskable", ".png">>, <<"safari-pinned-tab", ".svg">>,
    <<"site", ".webmanifest">> }
Range(s) == {s[k] : k \in 1..Len(s)}
C19_Report ==
  \A i \in 1..Len(report) :
     LET r == report[i]
     IN  r.tool = "check_icons_status" =>
           /\ ~r.isError
           /\ r.publicDir = C17_ExpectedStaticDir
           /\ Range(r.existing) \cup Range(r.missing) = C19_Required
           /\ Range(r.existing) \cap Range(r.missing) = {}
           /\ Len(r.existing) + Len(r.missing) = Cardinality(C19_Required)
           /\ \A n \in C19_Required :
                n \in Range(r.existing) <=> Join(r.publicDir, n) \in fs
           /\ r.appIcon # NoPath <=>
                (Join(cwd, <<"app", "-icon", ".svg">>) \in fs
                   \/ Join(cwd, <<"app", "-icon", ".png">>) \in fs)
C19_WritesNothing ==
  (/\ Len(report') = Len(report) + 1
   /\ report'[Len(report')].tool = "check_icons_status")
     => (fs' = fs /\ written' = written /\ html' = html)

\* C19: check_icons_status reports, for each of the eight required file
\* names, whether the file exists under the detected static asset
\* directory, every name being in exactly one of the existing and missing
\* lists, and whether app-icon.svg or app-icon.png exists at the project
\* root; the query writes nothing.
C19_StatusQuery == [](C19_Report) /\ [][C19_WritesNothing]_vars

\* A SvelteKit project in which some of the icons exist under static/
C19_Witness ==
  /\ Len(report) = 1
  /\ report[1].tool = "check_icons_status"
  /\ report[1].publicDir = Join(cwd, <<"static">>)
  /\ Len(report[1].existing) = 3
  /\ Len(report[1].missing) = 5
  /\ report[1].appIcon = Join(cwd, AppIconPng)

\* An error has been raised while a tool call was handled: the tool's name
\* is unknown, the mode is outside the schema's enum, the source is missing
\* or of an unsupported format, no app-icon exists, or a file-system
\* operation of the generation failed
C20_ErrorRaised ==
  \/ req.surface = "unknown_tool"
  \/ /\ IsMcp
     /\ \/ req.mode \notin {"traditional", "nextjs", "auto"}
        \/ /\ req.surface = "generate_web_icons"
           /\ \/ Resolve(cwd, req.source) \notin fs0
              \/ ~HasAllowedExtension(req.source)
        \/ /\ req.surface = "auto_generate_icons"
           /\ Join(cwd, <<"app", "-icon", ".svg">>) \notin fs0
           /\ Join(cwd, <<"app", "-icon", ".png">>) \notin fs0
        \/ faults > 0
        \/ \E n \in DOMAIN tasks : tasks[n] = "failed"
C20_Reported ==
  /\ C20_ErrorRaised =>
       /\ pc \notin {"idle", "respond"}
       /\ pc \in {"done", "checked", "integrated"} =>
            (response.status = "error" /\ response.message # None)
       /\ response.status # "ok"
  /\ \A i \in 1..Len(report) :
       (report[i].tool = "integrate_icons_html" /\ report[i].target \notin fs) =>
          (report[i].isError /\ report[i].outcome = "HTML file not found")
\* Nothing is tried again: a failed operation stays failed, the count of
\* failures only grows by the failure itself, and an error answer is final
C20_NoRetry ==
  /\ \A n \in DOMAIN tasks : tasks[n] = "failed" =>
       (n \in DOMAIN tasks' /\ tasks'[n] = "failed")
  /\ response.status = "error" => response' = response
  /\ \A i \in 1..Len(report) : report'[i] = report[i]

\* C20: every error raised while a tool call is handled (unknown tool name,
\* invalid arguments, source not found, unsupported format, missing
\* app-icon, missing HTML file, a failed file-system operation of the
\* generation) yields an answer flagged as an error that carries a message,
\* never a success answer, and nothing is retried.
C20_NoSilentFailure == [](C20_Reported) /\ [][C20_NoRetry]_vars

\* The write of one asset failed after the run had written others, and the
\* tool answered with the error
C20_Witness ==
  /\ IsMcp
  /\ faults > 0
  /\ \E n \in DOMAIN tasks : tasks[n] = "failed"
  /\ WrittenKind("image") # {}
  /\ response.status = "error"
  /\ response.message = "Generation failed"

\* The resolved output directory of the request, and whether its text
\* contains '/app' (which a basename 'app' of an absolute path implies)
C21_Resolved == Resolve(cwd, req.outputDir)
C21_ContainsSlashApp ==
  \E i \in 1..(Len(C21_Resolved) - 1) :
     C21_Resolved[i] = SEP /\ C21_Resolved[i + 1] = "app"

\* C21: with requested mode 'auto' and an output-directory option, the
\* resolved mode is app-router when the resolved path's basename is 'app' or
\* the path contains '/app', and traditional otherwise, whatever framework
\* is detected and whether or not the project has an app directory.
C21_AutoModeFromPathOnly ==
  (Constructed /\ req.mode = "auto" /\ req.outputDir # NoPath) =>
     /\ gen.options.outputDir = C21_Resolved
     /\ gen.mode = IF C21_ContainsSlashApp THEN "nextjs" ELSE "traditional"

\* A SvelteKit project without an app directory, output directory public:
\* the project's own path contains '/app' and the mode is app-router
C21_Witness ==
  /\ Succeeded
  /\ cwd = AppsRoot
  /\ req.mode = "auto"
  /\ req.outputDir = <<"public">>
  /\ h.framework.name = "SvelteKit"
  /\ gen.mode = "nextjs"

\* The paths one per-asset operation touches: where sharp writes and where
\* the asset ends up
C22_PathsOf(n) == {ToFilePath(OutputDir, ConfigOf(n)), Join(OutputDir, n)}
C22_Disjoint ==
  DOMAIN tasks # {} =>
     /\ \A n, m \in DOMAIN tasks : n # m => C22_PathsOf(n) \cap C22_PathsOf(m) = {}
     /\ Cardinality(UNION {C22_PathsOf(n) : n \in DOMAIN tasks})
          = Cardinality(DOMAIN tasks) + 1
     /\ (\A n \in DOMAIN tasks : tasks[n] = "done") =>
          Cardinality(WrittenKind("image")) = Cardinality(DOMAIN tasks)
\* A step keeps every image the run has written, or moves it to favicon.ico
C22_NoClobber ==
  \A w \in written :
     w.c.kind = "image" =>
        \/ w \in written'
        \/ /\ w.path \notin WrittenPaths'
           /\ [path |-> Join(OutputDir, FaviconIco), c |-> w.c] \in written'

\* C22: for every resolved mode the final paths of the filtered catalog
\* assets and the temporary .png path of the favicon are pairwise distinct,
\* and no step of one operation replaces or renames a file another
\* operation wrote.
C22_DisjointAssetPaths == [](C22_Disjoint) /\ [][C22_NoClobber]_vars

\* An app-router run whose four operations have all completed
C22_Witness ==
  /\ pc = "svg"
  /\ gen.mode = "nextjs"
  /\ Cardinality(WrittenKind("image")) = 4
  /\ Join(OutputDir, IconPng) \in WrittenPaths
  /\ Join(OutputDir, FaviconIco) \in WrittenPaths

AllTasksDone == DOMAIN tasks # {} /\ \A n \in DOMAIN tasks : tasks[n] = "done"
C23_Order ==
  /\ (DOMAIN tasks # {} /\ pc = "fanout") => OutputDir \in fs
  /\ WrittenKind("image") # {} => OutputDir \in fs
  /\ (WrittenKind("svgcopy") # {} \/ WrittenKind("pinned") # {}
        \/ WrittenKind("manifest") # {}) => AllTasksDone
  /\ WrittenKind("guide") # {} =>
       /\ AllTasksDone
       /\ \A n \in DOMAIN tasks : Join(OutputDir, n) \in fs
       /\ gen.mode = "traditional" => Join(OutputDir, SiteWebmanifest) \in WrittenPaths
       /\ VectorSource => Join(OutputDir, IconSvg) \in WrittenPaths
       /\ (VectorSource /\ gen.mode = "traditional") =>
            Join(OutputDir, SafariPinnedTab) \in WrittenPaths
\* Nothing is written after the guide
C23_GuideIsLast ==
  WrittenKind("guide") # {} => (written' = written /\ fs' = fs)

\* C23: the output directory exists before any asset is written; the vector
\* copy, the pinned-tab variant and the manifest are written only after
\* every per-asset operation has completed; and the integration guide is
\* the last file written, so a guide written by a run implies that the
\* run's whole output set exists.
C23_StepOrdering == [](C23_Order) /\ [][C23_GuideIsLast]_vars

\* A traditional run on a vector source has written its guide
C23_Witness ==
  /\ WrittenKind("guide") # {}
  /\ gen.mode = "traditional"
  /\ VectorSource
  /\ Cardinality(written) = 9

\* The generator options the request determines, from the project tree, the
\* source, the color, the mode and the output-directory option alone
C24_AppDir ==
  IF C17_Expected # "Next.js" THEN NoPath
  ELSE IF Join(cwd, <<"app">>) \in fs0 THEN Join(cwd, <<"app">>)
  ELSE IF Join(cwd, <<"src", SEP, "app">>) \in fs0 THEN Join(cwd, <<"src", SEP, "app">>)
  ELSE NoPath
C24_Mode ==
  IF req.mode # "auto" THEN req.mode
  ELSE IF req.outputDir # NoPath
  THEN (IF C21_ContainsSlashApp THEN "nextjs" ELSE "traditional")
  ELSE (IF C24_AppDir # NoPath THEN "nextjs" ELSE "traditional")
C24_Options ==
  [sourcePath |-> Resolve(cwd, req.source),
   outputDir |-> IF req.outputDir # NoPath THEN C21_Resolved
                 ELSE IF C24_Mode = "nextjs" /\ C24_AppDir # NoPath THEN C24_AppDir
                 ELSE C17_ExpectedStaticDir,
   color |-> IF req.color = None THEN "#5bbad5" ELSE req.color,
   mode |-> C24_Mode,
   projectRoot |-> NoPath]

\* C24: for the same project tree, source path, color, valid mode and
\* output-directory option, the command line (every prompt answered with
\* its default) and generate_web_icons construct the generator with the
\* same options, hence resolve the same mode and the same output directory:
\* the options are one function of these inputs on both surfaces.
C24_SurfacesAgree ==
  (/\ Constructed
   /\ req.surface \in {"cli", "generate_web_icons"}
   /\ req.mode \in {"traditional", "nextjs", "auto"}
   /\ req.source # NoPath
   /\ req.defaults) =>
     /\ gen.options = C24_Options
     /\ gen.mode = C24_Mode

\* The command line on a Next.js project with an app directory, no options
\* but the source, both prompts answered with their defaults
C24_Witness ==
  /\ Constructed
  /\ IsCli
  /\ req.defaults
  /\ req.mode = "auto" /\ req.outputDir = NoPath /\ req.source = LogoPng
  /\ gen.mode = "nextjs"
  /\ gen.options.outputDir = Join(cwd, <<"app">>)

\* C25: once generate() has failed and the failure has been reported, the
\* run performs no further file-system write or rename: no sibling
\* per-asset operation creates or replaces a file afterwards.
C25_NoWritesAfterFailure ==
  [][(Constructed /\ response.status = "error") => (fs' = fs /\ written' = written)]_vars

\* Some component of the resolved output directory is exactly 'app'
C26_HasAppComponent ==
  \E i \in 2..Len(C21_Resolved) :
     /\ C21_Resolved[i] = "app"
     /\ C21_Resolved[i - 1] = SEP
     /\ (i = Len(C21_Resolved) \/ C21_Resolved[i + 1] = SEP)

\* C26: with requested mode 'auto' and an output-directory option, the run
\* resolves to app-router mode only if some component of the resolved
\* output path is exactly 'app'; a directory such as <root>/public in a
\* project whose path has a component that merely begins with 'app'
\* resolves to traditional.
C26_AppComponentOnly ==
  (Constructed /\ req.mode = "auto" /\ req.outputDir # NoPath /\ gen.mode = "nextjs") =>
     C26_HasAppComponent

\* The page has an opening tag named exactly head that is closed at token j
C27_HeadClosesAt(page, j) ==
  \E i \in 1..(j - 1) :
     /\ page[i] \in {"<head", "<HEAD"}
     /\ page[i + 1] # "er"
     /\ page[j] = ">"
     /\ \A k \in (i + 1)..(j - 1) : page[k] # ">"

\* C27: integrate_icons_html inserts the icon block only right after the
\* closing '>' of an opening tag named exactly head (in either case): a
\* file without such a tag, also one with a <header> tag, is left
\* unmodified, and in every modified file the text before and after the
\* inserted block is the file's old text.
C27_SpliceAfterHeadOnly ==
  \A i \in Integrations :
     LET r == report[i]
         added == Len(r.after) - Len(r.before)
     IN  r.after # r.before =>
           \E j \in 1..Len(r.before) :
              /\ C27_HeadClosesAt(r.before, j)
              /\ added > 0
              /\ SubSeq(r.after, 1, j) = SubSeq(r.before, 1, j)
              /\ SubSeq(r.after, j + added + 1, Len(r.after))
                   = SubSeq(r.before, j + 1, Len(r.before))

\* C28: in a traditional run on a vector source, the color put into every
\* fill and stroke of safari-pinned-tab.svg equals the color of the
\* mask-icon tag of the integration guide, for every value of the color
\* option, absent and the empty string included.
C28_AccentColorConsistent ==
  (Succeeded /\ gen.mode = "traditional" /\ VectorSource) =>
     \A p \in WrittenKind("pinned"), g \in WrittenKind("guide") : p.c.color = g.c.color

\* C29: after a successful auto_generate_icons (mode 'auto') on a project
\* root that holds app-icon.svg, a following check_icons_status on the same
\* root reports all eight required icons as existing and none as missing,
\* whatever the framework layout, a Next.js project with an app directory
\* included.
C29_GenerateThenCheck ==
  (/\ req.surface = "auto_generate_icons"
   /\ req.mode = "auto"
   /\ Succeeded
   /\ h.sourcePath = Join(cwd, <<"app", "-icon", ".svg">>)) =>
     \A i \in 1..Len(report) :
        report[i].tool = "check_icons_status" =>
           (report[i].missing = <<>> /\ Len(report[i].existing) = 8)

\* C30: every file named in the "Generated files" list of a successful
\* generate_web_icons or auto_generate_icons response exists afterwards at the
\* reported output location, for vector and non-vector sources alike.
C30_ReportMatchesFilesystem ==
  (IsMcp /\ pc = "done" /\ Succeeded)
    => \A name \in response.files : Join(OutputDir, name) \in fs

=============================================================================
